---- MODULE Spec2Model ----
(***************************************************************************)
(* Agentic-RAG: the four-stage LangGraph pipeline (src/src/agent,          *)
(* src/src/main.py) and the self-correcting agent nodes of the             *)
(* Supervisor/Router variant (src/src/agents.py).                          *)
(*                                                                         *)
(* Python str values are TLA+ strings; "" is the empty str.  A dict that   *)
(* keeps insertion order (file_scores) is a sequence of <<key, value>>     *)
(* pairs; a partial state update returned by a node is a record whose      *)
(* DOMAIN is the set of keys the node returned.                            *)
(***************************************************************************)
EXTENDS Integers, Sequences, FiniteSets, TLC

VARIABLES
    pc,                 \* position in main() / run_query() / graph.stream()
    vectorstore,        \* vectorstore_manager.vectorstore: "None" or "built"/"loaded"
    persisted,          \* whether VECTOR_STORE_PATH exists on disk
    state,              \* the GraphState threaded through the graph
    executed,           \* node names in the order the graph ran them in this run
    final_state,        \* run_query's final_state: the last streamed output
    reported,           \* what run_query showed the caller
    fault,              \* the external call that failed in this run, if any
    iterations,         \* AgentExecutor's iteration counter (Gather stage)
    intermediate_steps, \* AgentExecutor's (action, observation) history
    retrieved_chunks,   \* get_file_relevance_scores: what search_similar_chunks did
    input_string,       \* evidence_gatherer_node: the input handed to the executor
    node,               \* agents.py: which node function is being called
    node_pc,            \* agents.py: position inside that node function
    node_state,         \* agents.py: the state argument of the node
    node_result,        \* agents.py: the update the node returned
    attempts,           \* agent_node: the attempts counter
    response,           \* agent_node: the executor's response of this attempt
    executor_calls,     \* number of executor.invoke calls made by agent_node
    grader_calls,       \* number of grader_chain.invoke calls made by agent_node
    attempt_log,        \* per attempt: the preliminary answer and how it ended
    executor_input,     \* agent_node: the argument of the last executor.invoke
    grader_input,       \* agent_node: the argument of the grader call under way
    call,               \* a function called on its own: its name and arguments
    call_result         \* what that call returned

pipeline_vars == <<pc, vectorstore, persisted, state, executed, final_state,
                   reported, fault, iterations, intermediate_steps,
                   retrieved_chunks, input_string>>
agent_vars == <<node, node_pc, node_state, node_result, attempts, response,
                executor_calls, grader_calls, attempt_log, executor_input,
                grader_input>>
function_vars == <<call, call_result>>
vars == <<pc, vectorstore, persisted, state, executed, final_state, reported,
          fault, iterations, intermediate_steps, retrieved_chunks,
          input_string, node, node_pc, node_state, node_result, attempts,
          response, executor_calls, grader_calls, attempt_log,
          executor_input, grader_input, call, call_result>>

(***************************************************************************)
(* Bounds of the model and constants of the program.                       *)
(***************************************************************************)
\* longest LLM synthesis output, counted in pieces of SynthesisPieces
MaxPieces == 2
\* most tool steps in one executor response handed to agent_node
MaxSteps == 2

\* most chunks the index returns to a call of get_file_relevance_scores
MaxChunks == 3

\* most lines of a file read_file_section is called on
MaxLines == 2

\* most calls of build_vectorstore in a row
MaxBuilds == 2

MAX_REACT_ITERATIONS == 5
max_attempts == 5
OBSERVATION_LIMIT == 500
CHUNK_SIZE == 1000
REBUILD_VECTORSTORE == TRUE

(***************************************************************************)
(* Python str operations, computed on TLA+ strings.                        *)
(***************************************************************************)
Min(a, b) == IF a <= b THEN a ELSE b

Truthy(s) == s # ""

IsWhitespace(c) == c \in {" ", "\n", "\t"}

RECURSIVE LStrip(_)
LStrip(s) ==
    IF Len(s) > 0 /\ IsWhitespace(SubSeq(s, 1, 1))
    THEN LStrip(SubSeq(s, 2, Len(s)))
    ELSE s

RECURSIVE RStrip(_)
RStrip(s) ==
    IF Len(s) > 0 /\ IsWhitespace(SubSeq(s, Len(s), Len(s)))
    THEN RStrip(SubSeq(s, 1, Len(s) - 1))
    ELSE s

\* str.strip()
Strip(s) == LStrip(RStrip(s))

\* str.find(sub) + 1: the first position sub starts at, 0 when absent
Find(s, sub) ==
    LET hits == {i \in 1..(Len(s) - Len(sub) + 1) :
                    SubSeq(s, i, i + Len(sub) - 1) = sub}
    IN IF hits = {} THEN 0 ELSE CHOOSE i \in hits : \A j \in hits : i <= j

\* sub in s
Contains(s, sub) == Find(s, sub) # 0

\* s.split(sep), sep non-empty: the list of parts
RECURSIVE Split(_, _)
Split(s, sep) ==
    LET i == Find(s, sep)
    IN IF i = 0 THEN <<s>>
       ELSE <<SubSeq(s, 1, i - 1)>> \o Split(SubSeq(s, i + Len(sep), Len(s)), sep)

\* s.replace(old, new), old non-empty
RECURSIVE Replace(_, _, _)
Replace(s, old, new) ==
    LET i == Find(s, old)
    IN IF i = 0 THEN s
       ELSE SubSeq(s, 1, i - 1) \o new
            \o Replace(SubSeq(s, i + Len(old), Len(s)), old, new)

\* sep.join(parts)
RECURSIVE Join(_, _)
Join(sep, parts) ==
    IF Len(parts) = 0 THEN ""
    ELSE IF Len(parts) = 1 THEN parts[1]
    ELSE parts[1] \o sep \o Join(sep, Tail(parts))

Prefix_keeps_the_end(s, n) == SubSeq(s, Len(s) - Min(Len(s), n) + 1, Len(s))

\* s[:n]
Prefix(s, n) == SubSeq(s, 1, Min(Len(s), n))

Range(f) == {f[i] : i \in DOMAIN f}

\* the elements of a set as a list
RECURSIVE Keys(_)
Keys(K) ==
    IF K = {} THEN <<>>
    ELSE LET k == CHOOSE x \in K : TRUE IN <<k>> \o Keys(K \ {k})

\* s * k
RECURSIVE Repeat(_, _)
Repeat(s, k) == IF k = 0 THEN "" ELSE s \o Repeat(s, k - 1)

DIGITS == "0123456789"

\* a text of n characters in which no two neighbours are equal
TextOfLength(n) == SubSeq(Repeat(DIGITS, n \div Len(DIGITS) + 1), 1, n)

\* every sequence over S of length at most n
SeqsUpTo(S, n) == UNION {[1..k -> S] : k \in 0..n}

(***************************************************************************)
(* What the external collaborators can answer.                             *)
(***************************************************************************)
\* what input() can return in main's loop (stripped, non-empty, not a quit word)
Queries == {"What was the Q1 budget?"}

\* str(e) of a raised exception; Exception() has the empty str
Causes == {"", "connection refused"}

\* the JSON object the Analyze LLM call parses to
Analyses == {[inference_required |-> TRUE]}

Chunk(source, score) == [source |-> source, relevance_score |-> score]

\* similarity_search_with_score results, as (source, score) pairs: an empty
\* index, a single chunk, and two files of which the one found first has the
\* larger mean distance
IndexResults ==
    { <<>>,
      <<Chunk("budget_report_q1.txt", 1)>>,
      <<Chunk("other_doc.txt", 1), Chunk("budget_report_q1.txt", 1),
        Chunk("other_doc.txt", 4)>> }

\* final answers an LLM gives
Answers == {"The Q1 budget was $50,000.", "I don't know."}

\* the names of the tools in the registry
all_tools == {"vector_search_chunks", "read_file_section"}

\* one step of the ReAct loop: the tool the LLM selected, its input and what
\* the executor recorded as the observation.  all_tools has the two names
\* vector_search_chunks and read_file_section; any other name is answered by
\* the executor's InvalidTool, and unparseable output (handle_parsing_errors)
\* by the "_Exception" pseudo-tool.
ToolSteps ==
    { [tool |-> "vector_search_chunks", tool_input |-> "Q1 budget",
       observation |-> "No relevant information found."],
      [tool |-> "web_search", tool_input |-> "Q1 budget",
       observation |-> "web_search is not a valid tool, try one of [vector_search_chunks, read_file_section]."],
      [tool |-> "_Exception", tool_input |-> "Invalid or incomplete response",
       observation |-> "Invalid or incomplete response"] }

\* AgentExecutor's output when max_iterations is reached (early_stopping_method
\* is left at its default, "force")
STOPPED_OUTPUT == "Agent stopped due to iteration limit or time limit."

SynthesisPieces == {"**REASONING:**", "**ANSWER:**", " ", "x"}

\* the texts the Synthesize LLM call can return
SynthesisOutputs ==
    {Join("", p) : p \in SeqsUpTo(SynthesisPieces, MaxPieces)}

(***************************************************************************)
(* GraphState and the graph (agent/state.py, agent/graph.py, main.py).     *)
(***************************************************************************)
EmptyDict == <<>>
EmptyList == <<>>
NoOutput == [node |-> "", output |-> EmptyDict]
NothingReported == [kind |-> "none"]
NoFault == [stage |-> "", cause |-> ""]
NotSearched == [kind |-> "none"]

\* how a call of a node function ends: it returns an update, or an exception
\* leaves it
Return(update) == [kind |-> "returned", update |-> update]
Propagate(cause) == [kind |-> "raised", update |-> EmptyDict]

\* run_query's initial_state
initial_state(query) ==
    [original_query |-> query,
     query_analysis |-> EmptyDict,
     file_scores |-> EmptyDict,
     evidence |-> EmptyList,
     reasoning_trace |-> "",
     final_answer |-> "",
     error |-> ""]

Merge_starts_afresh(st, update) ==
    [k \in DOMAIN st |-> IF k \in DOMAIN update THEN update[k]
                         ELSE initial_state(st.original_query)[k]]

\* LangGraph merges a node's update into the state key by key
Merge(st, update) ==
    [k \in DOMAIN st |-> IF k \in DOMAIN update THEN update[k] ELSE st[k]]

\* dict.get(key, default)
Get(d, key, default) == IF key \in DOMAIN d THEN d[key] ELSE default

should_continue_always(st) == "continue"

should_continue(st) ==
    IF Truthy(Get(st, "error", "")) THEN "error" ELSE "continue"

\* the conditional edges and the final edge of the workflow
edge_skips_ranking(from, decision) ==
    IF from = "synthesis_analyzer" THEN "END"
    ELSE IF decision = "error" THEN "END"
    ELSE IF from = "query_analyzer" THEN "evidence_gatherer"
    ELSE IF from = "retrieval_planner" THEN "evidence_gatherer"
    ELSE "synthesis_analyzer"

edge_ends_on_continue(from, decision) ==
    IF from = "synthesis_analyzer" THEN "END"
    ELSE IF from = "query_analyzer" THEN "END"
    ELSE IF decision = "error" THEN "END"
    ELSE IF from = "retrieval_planner" THEN "evidence_gatherer"
    ELSE "synthesis_analyzer"

edge(from, decision) ==
    IF from = "synthesis_analyzer" THEN "END"
    ELSE IF decision = "error" THEN "END"
    ELSE IF from = "query_analyzer" THEN "retrieval_planner"
    ELSE IF from = "retrieval_planner" THEN "evidence_gatherer"
    ELSE "synthesis_analyzer"

\* one superstep of graph.stream: the node's update is merged, streamed to
\* run_query (final_state = output) and the outgoing edge is followed.  An
\* exception that leaves the node leaves graph.stream too and is caught by
\* run_query's own handler, which prints it and returns.
RunNode(name, result) ==
    IF result.kind = "returned"
    THEN LET merged == Merge(state, result.update)
         IN /\ state' = merged
            /\ executed' = Append(executed, name)
            /\ final_state' = [node |-> name, output |-> result.update]
            /\ pc' = edge(name, should_continue(merged))
            /\ UNCHANGED reported
    ELSE /\ executed' = Append(executed, name)
         /\ reported' = [kind |-> "exception"]
         /\ pc' = "prompt"
         /\ UNCHANGED <<state, final_state>>

\* the record of an external call (LLM, index, hub) that failed in a stage
Failed(name, outcome) ==
    IF outcome.kind = "raise"
    THEN fault' = [stage |-> name, cause |-> outcome.cause]
    ELSE UNCHANGED fault

(***************************************************************************)
(* RelevanceAggregator (retrieval/vectorstore.py).  A float is an exact    *)
(* fraction <<numerator, denominator>> in lowest terms.                    *)
(***************************************************************************)
RECURSIVE Gcd(_, _)
Gcd(a, b) == IF b = 0 THEN a ELSE Gcd(b, a % b)

Fraction(n, d) == LET g == Gcd(n, d) IN <<n \div g, d \div g>>

FracLess(x, y) == x[1] * y[2] < y[1] * x[2]

RECURSIVE Sum(_)
Sum(xs) == IF Len(xs) = 0 THEN 0 ELSE Head(xs) + Sum(Tail(xs))

\* the number of chunks get_file_relevance_scores asks the index for
RELEVANCE_K == 20

\* search_similar_chunks: raises ValueError before build_vectorstore, else
\* the first k results of the index
search_similar_chunks(store, index_result, k) ==
    IF store = "None"
    THEN [kind |-> "raise",
          cause |-> "Vector store not initialized. Call build_vectorstore() first."]
    ELSE IF index_result.kind = "raise" THEN index_result
    ELSE [kind |-> "ok",
          value |-> SubSeq(index_result.value, 1, Min(Len(index_result.value), k))]

\* the keys of the grouping dict, in insertion (first appearance) order
RECURSIVE FirstAppearance(_, _)
FirstAppearance(chunks, seen) ==
    IF Len(chunks) = 0 THEN <<>>
    ELSE IF Head(chunks).source \in seen THEN FirstAppearance(Tail(chunks), seen)
    ELSE <<Head(chunks).source>>
         \o FirstAppearance(Tail(chunks), seen \cup {Head(chunks).source})

\* file_scores[filename]: the scores of that file's chunks, in order
RECURSIVE ScoresOf(_, _)
ScoresOf(chunks, filename) ==
    IF Len(chunks) = 0 THEN <<>>
    ELSE (IF Head(chunks).source = filename
          THEN <<Head(chunks).relevance_score>> ELSE <<>>)
         \o ScoresOf(Tail(chunks), filename)

RECURSIVE Minimum(_)
Minimum(xs) ==
    IF Len(xs) = 1 THEN Head(xs) ELSE Min(Head(xs), Minimum(Tail(xs)))

Average_takes_minimum(scores) == Fraction(Minimum(scores), 1)

\* sum(scores) / len(scores)
Average(scores) == Fraction(Sum(scores), Len(scores))

\* sorted(items, key=lambda x: x[1]): a stable insertion of item into a list
\* already sorted by value
RECURSIVE InsertSorted(_, _)
InsertSorted(sorted, item) ==
    IF Len(sorted) = 0 THEN <<item>>
    ELSE IF FracLess(item[2], Head(sorted)[2]) THEN <<item>> \o sorted
    ELSE <<Head(sorted)>> \o InsertSorted(Tail(sorted), item)

RECURSIVE SortedByValue(_)
SortedByValue(items) ==
    IF Len(items) = 0 THEN <<>>
    ELSE InsertSorted(SortedByValue(SubSeq(items, 1, Len(items) - 1)),
                      items[Len(items)])

\* the .txt files of FILES_DIRECTORY
Documents == {"budget_report_q1.txt", "other_doc.txt", "notes.txt"}

\* the distances the index reports
Scores == {1, 2, 4}

get_file_relevance_scores_scores_every_document(all_chunks) ==
    LET names == FirstAppearance(
                    all_chunks \o [i \in 1..Cardinality(Documents) |->
                                      Chunk(Keys(Documents)[i], 0)], {})
        averaged_scores ==
            [i \in 1..Len(names) |->
                <<names[i],
                  IF ScoresOf(all_chunks, names[i]) = <<>>
                  THEN <<1000, 1>>
                  ELSE Average(ScoresOf(all_chunks, names[i]))>>]
    IN SortedByValue(averaged_scores)

\* get_file_relevance_scores on the chunks the index returned
get_file_relevance_scores(all_chunks) ==
    LET names == FirstAppearance(all_chunks, {})
        averaged_scores ==
            [i \in 1..Len(names) |->
                <<names[i], Average(ScoresOf(all_chunks, names[i]))>>]
    IN SortedByValue(averaged_scores)

(***************************************************************************)
(* The four stage functions (agent/nodes.py).  Each takes the state and    *)
(* the outcome of its external calls and gives the update it returns.      *)
(* An outcome is [kind |-> "ok", value |-> v] or                           *)
(* [kind |-> "raise", cause |-> str(e)].                                   *)
(***************************************************************************)
Ok(v) == [kind |-> "ok", value |-> v]
Raise(cause) == [kind |-> "raise", cause |-> cause]
Raises == {Raise(c) : c \in Causes}

query_analyzer_node_unguarded(st, llm) ==
    IF llm.kind = "ok"
    THEN Return([query_analysis |-> llm.value])
    ELSE Propagate(llm.cause)

query_analyzer_node(st, llm) ==
    IF llm.kind = "ok"
    THEN Return([query_analysis |-> llm.value])
    ELSE Return([error |-> "Query analysis failed: " \o llm.cause])

retrieval_planner_node_rejects_empty(st, all_chunks) ==
    IF all_chunks.kind = "ok" /\ all_chunks.value # <<>>
    THEN Return([file_scores |-> get_file_relevance_scores(all_chunks.value)])
    ELSE Return([error |-> "File relevance scoring failed: "
                           \o (IF all_chunks.kind = "ok" THEN "no chunks"
                               ELSE all_chunks.cause)])

\* all_chunks is what search_similar_chunks(query, k=20) did
retrieval_planner_node(st, all_chunks) ==
    IF all_chunks.kind = "ok"
    THEN Return([file_scores |-> get_file_relevance_scores(all_chunks.value)])
    ELSE Return([error |-> "File relevance scoring failed: " \o all_chunks.cause])

RECURSIVE Pow10(_)
Pow10(n) == IF n = 0 THEN 1 ELSE 10 * Pow10(n - 1)

\* n / d rounded to the nearest integer, a tie going to the even one
RoundHalfEven(n, d) ==
    LET q == n \div d
        r == n % d
    IN IF 2 * r < d THEN q
       ELSE IF 2 * r > d THEN q + 1
       ELSE IF q % 2 = 0 THEN q ELSE q + 1

RECURSIVE ZeroPad(_, _)
ZeroPad(digits, width) ==
    IF Len(digits) >= width THEN digits ELSE ZeroPad("0" \o digits, width)

\* the number of decimals of the format .4f
SCORE_DECIMALS == 4

\* f"{score:.4f}" of a non-negative score
FormatScore(score) ==
    LET scaled == RoundHalfEven(score[1] * Pow10(SCORE_DECIMALS), score[2])
    IN ToString(scaled \div Pow10(SCORE_DECIMALS)) \o "."
       \o ZeroPad(ToString(scaled % Pow10(SCORE_DECIMALS)), SCORE_DECIMALS)

\* one line per file of the ranking, in the ranking's order
file_scores_str(file_scores) ==
    Join("\n", [i \in 1..Len(file_scores) |->
                    "- " \o file_scores[i][1] \o ": "
                    \o FormatScore(file_scores[i][2])])

\* json.dumps(d, indent=2) of a dict of booleans
JsonDumps(d) ==
    IF DOMAIN d = {} THEN "{}"
    ELSE LET keys == Keys(DOMAIN d)
         IN "{\n"
            \o Join(",\n", [i \in 1..Len(keys) |->
                    "  \"" \o keys[i] \o "\": "
                    \o (IF d[keys[i]] THEN "true" ELSE "false")])
            \o "\n}"

\* the input evidence_gatherer_node builds for the executor
InputString(st) ==
    "Original Query: " \o st.original_query \o "\n\n"
    \o "Query Analysis:\n" \o JsonDumps(st.query_analysis) \o "\n\n"
    \o "Available Files with Relevance Scores (lower is better):\n"
    \o file_scores_str(st.file_scores)

Evidence_final_output_first(resp) ==
    <<[type |-> "final_output", content |-> resp.output]>>
    \o [i \in 1..Len(resp.intermediate_steps) |->
        [action |-> resp.intermediate_steps[i].tool,
         input |-> resp.intermediate_steps[i].tool_input,
         observation |->
            Prefix(resp.intermediate_steps[i].observation, OBSERVATION_LIMIT)]]

\* the evidence list built from the executor's response
Evidence(resp) ==
    [i \in 1..Len(resp.intermediate_steps) |->
        [action |-> resp.intermediate_steps[i].tool,
         input |-> resp.intermediate_steps[i].tool_input,
         observation |->
            Prefix(resp.intermediate_steps[i].observation, OBSERVATION_LIMIT)]]
    \o <<[type |-> "final_output", content |-> resp.output]>>

evidence_gatherer_node_keeps_evidence(st, executor) ==
    IF executor.kind = "ok"
    THEN Return([evidence |-> Evidence(executor.value)])
    ELSE Return([error |-> "Evidence gathering failed: " \o executor.cause,
                 evidence |-> <<[type |-> "final_output",
                                 content |-> executor.cause]>>])

\* evidence_gatherer_node, given what agent_executor.invoke (or the set-up
\* before it) did
evidence_gatherer_node(st, executor) ==
    IF executor.kind = "ok"
    THEN Return([evidence |-> Evidence(executor.value)])
    ELSE Return([error |-> "Evidence gathering failed: " \o executor.cause])

\* the split of the synthesis output into reasoning and answer
SplitSynthesis(synthesis_output) ==
    IF Contains(synthesis_output, "**REASONING:**")
       /\ Contains(synthesis_output, "**ANSWER:**")
    THEN LET parts == Split(synthesis_output, "**ANSWER:**")
         IN [reasoning_trace |-> Strip(Replace(parts[1], "**REASONING:**", "")),
             final_answer |-> Strip(parts[2])]
    ELSE [reasoning_trace |-> "Direct synthesis without explicit reasoning trace",
          final_answer |-> synthesis_output]

synthesis_analyzer_node_copied_prefix(st, llm) ==
    IF llm.kind = "ok"
    THEN Return(SplitSynthesis(llm.value))
    ELSE Return([error |-> "Evidence gathering failed: " \o llm.cause])

synthesis_analyzer_node(st, llm) ==
    IF llm.kind = "ok"
    THEN Return(SplitSynthesis(llm.value))
    ELSE Return([error |-> "Synthesis failed: " \o llm.cause])

(***************************************************************************)
(* main() and run_query() (main.py).                                       *)
(***************************************************************************)
\* initialize_system: build_vectorstore returned
BuildSucceeds ==
    /\ pc = "main"
    /\ IF persisted /\ ~REBUILD_VECTORSTORE
       THEN vectorstore' = "loaded" /\ UNCHANGED persisted
       ELSE vectorstore' = "built" /\ persisted' = TRUE
    /\ pc' = "prompt"
    /\ UNCHANGED <<state, executed, final_state, reported, fault, iterations,
                   intermediate_steps,
                   retrieved_chunks, input_string>>
    /\ UNCHANGED agent_vars
    /\ UNCHANGED function_vars

BuildFails_and_main_goes_on ==
    /\ pc = "main"
    /\ pc' = "prompt"
    /\ UNCHANGED <<vectorstore, persisted, state, executed, final_state,
                   reported, fault, iterations, intermediate_steps,
                   retrieved_chunks, input_string>>
    /\ UNCHANGED agent_vars
    /\ UNCHANGED function_vars

\* initialize_system: build_vectorstore raised; main exits with status 1.
\* The load, the loader, the splitter and the embedding fail before
\* self.vectorstore is assigned; save_local fails after it, and may have
\* created the path.
BuildFails ==
    /\ pc = "main"
    /\ pc' = "exited"
    /\ \/ UNCHANGED <<vectorstore, persisted>>
       \/ /\ ~(persisted /\ ~REBUILD_VECTORSTORE)
          /\ vectorstore' = "built"
          /\ persisted' \in {persisted, TRUE}
    /\ UNCHANGED <<state, executed, final_state,
                   reported, fault, iterations, intermediate_steps,
                   retrieved_chunks, input_string>>
    /\ UNCHANGED agent_vars
    /\ UNCHANGED function_vars

\* main's loop read a question and calls run_query, which builds the initial
\* state and starts the graph at its entry point
StartQuery ==
    /\ pc = "prompt"
    /\ \E query \in Queries : state' = initial_state(query)
    /\ executed' = <<>>
    /\ final_state' = NoOutput
    /\ reported' = NothingReported
    /\ fault' = NoFault
    /\ iterations' = 0
    /\ intermediate_steps' = <<>>
    /\ retrieved_chunks' = NotSearched
    /\ input_string' = ""
    /\ pc' = "query_analyzer"
    /\ UNCHANGED <<vectorstore, persisted>>
    /\ UNCHANGED agent_vars
    /\ UNCHANGED function_vars

\* main's loop read quit / exit / q, or was interrupted
Quit ==
    /\ pc = "prompt"
    /\ pc' = "exited"
    /\ UNCHANGED <<vectorstore, persisted, state, executed, final_state,
                   reported, fault, iterations, intermediate_steps,
                   retrieved_chunks, input_string>>
    /\ UNCHANGED agent_vars
    /\ UNCHANGED function_vars

\* run_query after graph.stream is exhausted: FINAL RESULTS, and the return
\* to main's loop, where the locals of run_query are gone.  Writing the
\* report file changes nothing the program reads again, and a failure to
\* write it is caught and printed.
DisplayResults ==
    /\ pc = "END"
    /\ LET last_output == final_state.output
       IN IF Truthy(Get(last_output, "error", ""))
          THEN reported' = [kind |-> "error", error |-> last_output.error]
          ELSE reported' =
                 [kind |-> "result",
                  reasoning |-> Get(last_output, "reasoning_trace",
                                    "No reasoning trace available."),
                  answer |-> Get(last_output, "final_answer",
                                 "No answer was generated.")]
    /\ pc' = "prompt"
    /\ state' = EmptyDict
    /\ executed' = <<>>
    /\ final_state' = NoOutput
    /\ fault' = NoFault
    /\ iterations' = 0
    /\ intermediate_steps' = <<>>
    /\ retrieved_chunks' = NotSearched
    /\ input_string' = ""
    /\ UNCHANGED <<vectorstore, persisted>>
    /\ UNCHANGED agent_vars
    /\ UNCHANGED function_vars

(***************************************************************************)
(* The graph's nodes as steps of graph.stream.                             *)
(***************************************************************************)
QueryAnalyzer ==
    /\ pc = "query_analyzer"
    /\ \E llm \in {Ok(a) : a \in Analyses} \cup Raises :
          /\ RunNode("query_analyzer", query_analyzer_node(state, llm))
          /\ Failed("query_analyzer", llm)
    /\ UNCHANGED <<vectorstore, persisted, iterations, intermediate_steps,
                   retrieved_chunks, input_string>>
    /\ UNCHANGED agent_vars
    /\ UNCHANGED function_vars

RetrievalPlanner ==
    /\ pc = "retrieval_planner"
    /\ \E index_result \in {Ok(r) : r \in IndexResults} \cup Raises :
          LET all_chunks ==
                search_similar_chunks(vectorstore, index_result, RELEVANCE_K)
          IN /\ RunNode("retrieval_planner",
                        retrieval_planner_node(state, all_chunks))
             /\ Failed("retrieval_planner", all_chunks)
             /\ retrieved_chunks' = all_chunks
    /\ UNCHANGED <<vectorstore, persisted, iterations, intermediate_steps,
                   input_string>>
    /\ UNCHANGED agent_vars
    /\ UNCHANGED function_vars

\* evidence_gatherer_node up to agent_executor.invoke: hub.pull and the
\* construction of the agent succeeded, the input is built from the state
\* and the ReAct loop starts
GathererStartsLoop ==
    /\ pc = "evidence_gatherer"
    /\ iterations' = 0
    /\ intermediate_steps' = <<>>
    /\ input_string' = InputString(state)
    /\ pc' = "react_loop"
    /\ UNCHANGED <<vectorstore, persisted, state, executed, final_state,
                   reported, fault, retrieved_chunks>>
    /\ UNCHANGED agent_vars
    /\ UNCHANGED function_vars

\* hub.pull or the construction of the agent raised
GathererSetupFails ==
    /\ pc = "evidence_gatherer"
    /\ \E raised \in Raises :
          /\ RunNode("evidence_gatherer", evidence_gatherer_node(state, raised))
          /\ Failed("evidence_gatherer", raised)
    /\ UNCHANGED <<vectorstore, persisted, iterations, intermediate_steps,
                   retrieved_chunks, input_string>>
    /\ UNCHANGED agent_vars
    /\ UNCHANGED function_vars

\* AgentExecutor: iterations < max_iterations
executor_should_continue(n) == n < MAX_REACT_ITERATIONS

ReactToolStep_unknown_tool_is_fatal ==
    /\ pc = "react_loop"
    /\ executor_should_continue(iterations)
    /\ \E step \in ToolSteps :
          IF step.tool \in all_tools
          THEN /\ intermediate_steps' = Append(intermediate_steps, step)
               /\ iterations' = iterations + 1
               /\ UNCHANGED <<pc, state, executed, final_state, reported,
                              fault>>
          ELSE /\ RunNode("evidence_gatherer",
                          evidence_gatherer_node(state, Raise(step.observation)))
               /\ Failed("evidence_gatherer", Raise(step.observation))
               /\ UNCHANGED <<iterations, intermediate_steps>>
    /\ UNCHANGED <<vectorstore, persisted, retrieved_chunks, input_string>>
    /\ UNCHANGED agent_vars
    /\ UNCHANGED function_vars

\* one iteration of the loop: the LLM selected a tool (or its output could
\* not be parsed), the executor ran it and recorded the observation
ReactToolStep ==
    /\ pc = "react_loop"
    /\ executor_should_continue(iterations)
    /\ \E step \in ToolSteps :
          intermediate_steps' = Append(intermediate_steps, step)
    /\ iterations' = iterations + 1
    /\ UNCHANGED <<pc, vectorstore, persisted, state, executed, final_state,
                   reported, fault, retrieved_chunks, input_string>>
    /\ UNCHANGED agent_vars
    /\ UNCHANGED function_vars

\* the LLM emitted a final answer: the executor returns and the node builds
\* its evidence
ReactConcludes ==
    /\ pc = "react_loop"
    /\ executor_should_continue(iterations)
    /\ \E output \in Answers :
          RunNode("evidence_gatherer",
                  evidence_gatherer_node(state,
                      Ok([output |-> output,
                          intermediate_steps |-> intermediate_steps])))
    /\ UNCHANGED <<vectorstore, persisted, fault, iterations,
                   intermediate_steps,
                   retrieved_chunks, input_string>>
    /\ UNCHANGED agent_vars
    /\ UNCHANGED function_vars

\* the LLM call raised inside the loop: the exception leaves the executor
ReactRaises ==
    /\ pc = "react_loop"
    /\ executor_should_continue(iterations)
    /\ \E raised \in Raises :
          /\ RunNode("evidence_gatherer", evidence_gatherer_node(state, raised))
          /\ Failed("evidence_gatherer", raised)
    /\ UNCHANGED <<vectorstore, persisted, iterations, intermediate_steps,
                   retrieved_chunks, input_string>>
    /\ UNCHANGED agent_vars
    /\ UNCHANGED function_vars

\* max_iterations reached: the executor returns its stopped response
ReactStopped ==
    /\ pc = "react_loop"
    /\ ~executor_should_continue(iterations)
    /\ RunNode("evidence_gatherer",
               evidence_gatherer_node(state,
                   Ok([output |-> STOPPED_OUTPUT,
                       intermediate_steps |-> intermediate_steps])))
    /\ UNCHANGED <<vectorstore, persisted, fault, iterations,
                   intermediate_steps,
                   retrieved_chunks, input_string>>
    /\ UNCHANGED agent_vars
    /\ UNCHANGED function_vars

SynthesisAnalyzer ==
    /\ pc = "synthesis_analyzer"
    /\ \E llm \in {Ok(t) : t \in SynthesisOutputs} \cup Raises :
          /\ RunNode("synthesis_analyzer", synthesis_analyzer_node(state, llm))
          /\ Failed("synthesis_analyzer", llm)
    /\ UNCHANGED <<vectorstore, persisted, iterations, intermediate_steps,
                   retrieved_chunks, input_string>>
    /\ UNCHANGED agent_vars
    /\ UNCHANGED function_vars

(***************************************************************************)
(* The pipeline's specification.                                           *)
(***************************************************************************)
NoResponse == [output |-> "", intermediate_steps |-> <<>>]
NoInput == [input |-> "<none>"]

AgentIdle ==
    /\ node = "none"
    /\ node_pc = "idle"
    /\ node_state = EmptyDict
    /\ node_result = EmptyDict
    /\ attempts = 0
    /\ response = NoResponse
    /\ executor_calls = 0
    /\ grader_calls = 0
    /\ attempt_log = <<>>
    /\ executor_input = NoInput
    /\ grader_input = NoInput

NoCall == [function |-> "none"]
NotReturned == [kind |-> "pending"]

NothingCalled ==
    /\ call = NoCall
    /\ call_result = NotReturned

Init ==
    /\ pc = "main"
    /\ vectorstore = "None"
    /\ persisted \in BOOLEAN
    /\ state = EmptyDict
    /\ executed = <<>>
    /\ final_state = NoOutput
    /\ reported = NothingReported
    /\ fault = NoFault
    /\ iterations = 0
    /\ intermediate_steps = <<>>
    /\ retrieved_chunks = NotSearched
    /\ input_string = ""
    /\ AgentIdle
    /\ NothingCalled

Next ==
    \/ BuildSucceeds
    \/ BuildFails
    \/ StartQuery
    \/ Quit
    \/ DisplayResults
    \/ QueryAnalyzer
    \/ RetrievalPlanner
    \/ GathererStartsLoop
    \/ GathererSetupFails
    \/ ReactToolStep
    \/ ReactConcludes
    \/ ReactRaises
    \/ ReactStopped
    \/ SynthesisAnalyzer

Spec == Init /\ [][Next]_vars

\* Every step of a run that is under way is a call that returns or fails, and
\* the single thread of control goes on to the next one.
RunStep ==
    \/ QueryAnalyzer
    \/ RetrievalPlanner
    \/ GathererStartsLoop
    \/ GathererSetupFails
    \/ ReactToolStep
    \/ ReactConcludes
    \/ ReactRaises
    \/ ReactStopped
    \/ SynthesisAnalyzer

FairSpec == Spec /\ WF_vars(RunStep)

(***************************************************************************)
(* Properties of the stage graph.                                          *)
(***************************************************************************)
StageOrder ==
    <<"query_analyzer", "retrieval_planner", "evidence_gatherer",
      "synthesis_analyzer">>

\* a stage is about to run or is running
StagePending == pc \in Range(StageOrder) \cup {"react_loop"}

\* graph.stream is exhausted: the state is the run's terminal state
Terminal == pc = "END"

\* a run was started (the state exists)
RunExists == state # EmptyDict

\* the update of the stage that ran last holds a non-empty error
LastStageFailed == Truthy(Get(final_state.output, "error", ""))

\* C1: once a stage k has returned a non-empty error, it is the last stage
\* that ran: no stage is pending or runs later in that run, and the fields of
\* the stages after k still hold the defaults of run_query's initial state.
C1_ShortCircuit ==
    (RunExists /\ Truthy(state.error)) =>
        LET k == Len(executed)
        IN /\ ~StagePending
           /\ k \in 1..4
           /\ executed = SubSeq(StageOrder, 1, k)
           /\ final_state.node = StageOrder[k]
           /\ final_state.output.error = state.error
           /\ (k < 2 => state.file_scores = EmptyDict)
           /\ (k < 3 => state.evidence = EmptyList)
           /\ (k < 4 => state.reasoning_trace = "" /\ state.final_answer = "")

\* the Rank stage failed: Analyze had produced its analysis, Gather and
\* Synthesize never ran
C1_Witness ==
    /\ Terminal
    /\ Truthy(state.error)
    /\ executed = <<"query_analyzer", "retrieval_planner">>
    /\ state.query_analysis # EmptyDict
    /\ state.evidence = EmptyList

\* C2: in the terminal state of every run exactly one of final_answer and
\* error is non-empty.
C2_ExactlyOneOfAnswerAndError ==
    Terminal => (Truthy(state.final_answer) # Truthy(state.error))

\* C3: the stages run in the fixed order Analyze, Rank, Gather, Synthesize,
\* each at most once; a stage is pending only when all the stages before it
\* have run and the state holds no error; after a stage the graph either goes
\* on to the next stage or ends.
C3_FixedOrder ==
    RunExists =>
        /\ Len(executed) <= 4
        /\ executed = SubSeq(StageOrder, 1, Len(executed))
        /\ StagePending =>
              /\ Len(executed) < 4
              /\ pc \in {StageOrder[Len(executed) + 1]}
                        \cup (IF Len(executed) = 2 THEN {"react_loop"} ELSE {})
              /\ ~Truthy(state.error)
        /\ (~StagePending /\ Len(executed) < 4 /\ reported.kind # "exception")
              => Truthy(state.error)

\* a run in which all four stages ran, in order, with no error
C3_Witness ==
    /\ Terminal
    /\ executed = StageOrder
    /\ ~Truthy(state.error)
    /\ Truthy(state.final_answer)

\* the run completed: all four stages ran and there is no error
Completed == executed = StageOrder /\ ~Truthy(state.error)

\* the run was aborted at the stage that ran last, which set the error
Aborted ==
    /\ Len(executed) \in 1..4
    /\ executed = SubSeq(StageOrder, 1, Len(executed))
    /\ final_state.node = StageOrder[Len(executed)]
    /\ LastStageFailed
    /\ state.error = final_state.output.error

\* C4: every run that was started reaches a terminal state, and a terminal
\* state is either completed or aborted-at-stage-k, never both and never
\* anything else.
C4_RunTerminates ==
    /\ [](Terminal => (Completed # Aborted))
    /\ (StagePending ~> Terminal)

\* a run aborted at the Gather stage, and not completed
C4_Witness ==
    /\ Terminal
    /\ Aborted
    /\ ~Completed
    /\ Len(executed) = 3

BudgetExhausted ==
    /\ RunExists
    /\ pc # "react_loop"
    /\ Len(executed) >= 3
    /\ iterations = MAX_REACT_ITERATIONS
    /\ fault = NoFault

\* C7: when the LLM never concludes, the loop stops after exactly
\* MAX_REACT_ITERATIONS iterations and the Gather stage returns an error, so
\* Synthesize does not run.
C7_BudgetExhaustionIsStageError ==
    /\ iterations <= MAX_REACT_ITERATIONS
    /\ BudgetExhausted =>
          /\ Truthy(state.error)
          /\ executed = SubSeq(StageOrder, 1, 3)

\* a query is being executed by run_query
QueryExecuting == StagePending \/ Terminal

\* C18: main runs a query only after build_vectorstore has returned: the
\* prompt is reached from the build alone and only with the store built;
\* after initialize_system the program is at the prompt or has exited, and
\* once exited it runs nothing; the store and its files change only in
\* initialize_system, never while a query is executing.
C18_BuildBeforeAnyQuery ==
    /\ []((pc = "prompt" \/ QueryExecuting \/ RunExists
            \/ reported # NothingReported) => vectorstore # "None")
    /\ [][pc = "main" => pc' \in {"prompt", "exited"}]_vars
    /\ [][pc = "exited" => pc' = "exited"]_vars
    /\ [][QueryExecuting' => (pc = "prompt" \/ QueryExecuting)]_vars
    /\ [][(vectorstore' # vectorstore \/ persisted' # persisted)
             => (pc = "main" /\ ~QueryExecuting /\ ~QueryExecuting')]_vars

\* a query is executing its Rank stage on the store the build produced
C18_Witness ==
    /\ QueryExecuting
    /\ Len(executed) = 1
    /\ vectorstore = "built"
    /\ persisted
    /\ pc = "retrieval_planner"

\* the text each stage puts before the cause of its failure
StagePrefix ==
    <<"Query analysis failed: ", "File relevance scoring failed: ",
      "Evidence gathering failed: ", "Synthesis failed: ">>

\* run_query shows its results and returns
RunQueryReports == pc = "END" /\ pc' = "prompt"

\* C19: for an aborted run run_query reports exactly the error the failed
\* stage set, which is that stage's own prefix followed by the cause, and no
\* two stages share a prefix; for a completed run it reports the
\* reasoning_trace and the final_answer the Synthesize stage returned, and no
\* error.
C19_CallerVisibleOutcome ==
    /\ [](\A i, j \in 1..4 :
             i # j => ~(/\ Len(StagePrefix[i]) >= Len(StagePrefix[j])
                        /\ SubSeq(StagePrefix[i], 1, Len(StagePrefix[j]))
                              = StagePrefix[j]))
    /\ [][RunQueryReports =>
             IF Truthy(state.error)
             THEN /\ Aborted
                  /\ reported' = [kind |-> "error", error |-> state.error]
                  /\ fault.stage = StageOrder[Len(executed)]
                  /\ state.error = StagePrefix[Len(executed)] \o fault.cause
             ELSE /\ Completed
                  /\ final_state.node = "synthesis_analyzer"
                  /\ DOMAIN final_state.output
                        = {"reasoning_trace", "final_answer"}
                  /\ reported' =
                        [kind |-> "result",
                         reasoning |-> final_state.output.reasoning_trace,
                         answer |-> final_state.output.final_answer]]_vars

\* run_query reported the error of a run that the Synthesize stage aborted
C19_Witness ==
    /\ pc = "prompt"
    /\ reported = [kind |-> "error",
                   error |-> "Synthesis failed: connection refused"]

\* the Gather stage of this run returned its evidence
GatherSucceeded ==
    /\ RunExists
    /\ Len(executed) >= 3
    /\ (Len(executed) = 3 => ~Truthy(state.error))

IsToolStepRecord(record) == DOMAIN record = {"action", "input", "observation"}

IsFinalOutputRecord(record) ==
    DOMAIN record = {"type", "content"} /\ record.type = "final_output"

C22_NoPartialEvidence ==
    (fault.stage = "evidence_gatherer") =>
        /\ DOMAIN final_state.output = {"error"}
        /\ final_state.node = "evidence_gatherer"
        /\ Truthy(state.error)
        /\ state.evidence = EmptyList
        /\ executed = SubSeq(StageOrder, 1, 3)
        /\ Terminal

\* the LLM call faulted after two tool steps had been made
C22_Witness ==
    /\ fault.stage = "evidence_gatherer"
    /\ Len(intermediate_steps) = 2
    /\ state.evidence = EmptyList
    /\ Terminal

\* the step is not a call of a tool of the registry: the LLM named another
\* tool, or its output could not be parsed as an action
IsSelectionError(step) ==
    step.tool \notin {"vector_search_chunks", "read_file_section"}

\* the loop is thinking: the executor is about to ask the LLM
Thinking == pc = "react_loop"

\* C23: when the LLM selects a tool outside the registry or emits output
\* that is not an action, the loop neither fails nor raises: it appends a
\* step with a non-empty error observation, uses up one iteration and is
\* thinking again, with no fault, error or report; the error of a failed
\* Gather stage is never the message of such a step.
C23_SelectionErrorsAreRecoverable ==
    /\ [](fault.stage = "evidence_gatherer" =>
             fault.cause \notin {step.observation :
                                    step \in {t \in ToolSteps :
                                                 IsSelectionError(t)}})
    /\ [](reported.kind # "exception")
    /\ [][(/\ Thinking
           /\ Len(intermediate_steps') > Len(intermediate_steps)
           /\ IsSelectionError(intermediate_steps'[Len(intermediate_steps')]))
          => LET step == intermediate_steps'[Len(intermediate_steps')]
             IN /\ intermediate_steps' = Append(intermediate_steps, step)
                /\ iterations' = iterations + 1
                /\ iterations' <= MAX_REACT_ITERATIONS
                /\ Truthy(step.observation)
                /\ Thinking'
                /\ fault' = NoFault
                /\ state' = state
                /\ reported' = reported]_vars

\* after an unknown tool and an unparseable output the loop concluded, and
\* the Gather stage returned its evidence
C23_Witness ==
    /\ GatherSucceeded
    /\ Len(intermediate_steps) = 2
    /\ intermediate_steps[1].tool = "web_search"
    /\ intermediate_steps[2].tool = "_Exception"
    /\ state.evidence[3].content = "The Q1 budget was $50,000."
    /\ pc = "synthesis_analyzer"

\* the index answered the search of this run with no chunk at all
EmptyRanking == RunExists /\ retrieved_chunks = Ok(<<>>)

FILES_HEADER == "Available Files with Relevance Scores (lower is better):\n"

\* the fields a stage returns when it succeeds
OwnFields(name) ==
    IF name = "query_analyzer" THEN {"query_analysis"}
    ELSE IF name = "retrieval_planner" THEN {"file_scores"}
    ELSE IF name = "evidence_gatherer" THEN {"evidence"}
    ELSE {"reasoning_trace", "final_answer"}

\* a stage of a running query finishes in this step
StageFinishes ==
    /\ RunExists
    /\ state' # EmptyDict
    /\ executed' # executed

\* C26: the update of a stage holds its own output fields, or error alone
\* when it fails, and no other field of the state changes in its step; no
\* step of a run changes original_query, which is the query run_query was
\* given, and between the ends of two stages the state does not change at
\* all, so what an earlier stage produced is what every later stage leaves.
C26_StageFrame ==
    /\ [][StageFinishes =>
            LET name == executed'[Len(executed')]
            IN /\ \A k \in DOMAIN state :
                     state'[k] # state[k] => k \in OwnFields(name) \cup {"error"}
               /\ (final_state' # final_state =>
                     /\ final_state'.node = name
                     /\ DOMAIN final_state'.output
                           \in {OwnFields(name), {"error"}}
                     /\ \A k \in DOMAIN final_state'.output :
                           state'[k] = final_state'.output[k])
               /\ (final_state' = final_state => state' = state)]_vars
    /\ [][(RunExists /\ state' # EmptyDict) =>
            /\ state'.original_query = state.original_query
            /\ (executed' = executed => state' = state)]_vars
    /\ [][(~RunExists /\ state' # EmptyDict) =>
            /\ state'.original_query \in Queries
            /\ state' = initial_state(state'.original_query)]_vars

\* all four stages succeeded: the analysis, the ranking and the evidence of
\* the earlier stages are in the terminal state next to the answer
C26_Witness ==
    /\ Terminal
    /\ executed = StageOrder
    /\ state.original_query \in Queries
    /\ state.query_analysis # EmptyDict
    /\ state.file_scores # EmptyDict
    /\ state.evidence # EmptyList
    /\ Truthy(state.final_answer)
    /\ ~Truthy(state.error)

\* C14: when the index returns zero chunks, the Rank stage returns an empty
\* file_scores and no error, the graph goes on to Gather, Gather builds its
\* input with an empty list of files and runs its loop, and a Gather error in
\* such a run comes from a fault of Gather's own calls only.
C14_EmptyRankingIsNotAnError ==
    EmptyRanking =>
        /\ state.file_scores = EmptyDict
        /\ Len(executed) >= 2
        /\ (final_state.node = "retrieval_planner" =>
              /\ final_state.output = [file_scores |-> EmptyDict]
              /\ ~Truthy(state.error)
              /\ pc \in {"evidence_gatherer", "react_loop"})
        /\ (pc = "react_loop" =>
              /\ ~Truthy(state.error)
              /\ Len(input_string) > Len(FILES_HEADER)
              /\ SubSeq(input_string,
                        Len(input_string) - Len(FILES_HEADER) + 1,
                        Len(input_string)) = FILES_HEADER)
        /\ (final_state.node = "evidence_gatherer" /\ Truthy(state.error))
              => fault.stage = "evidence_gatherer"

\* Gather ran its loop on an empty ranking, used a tool and returned evidence
C14_Witness ==
    /\ EmptyRanking
    /\ final_state.node = "evidence_gatherer"
    /\ ~Truthy(state.error)
    /\ Len(state.evidence) = 2
    /\ state.evidence[1].action = "vector_search_chunks"
    /\ pc = "synthesis_analyzer"

(***************************************************************************)
(* The Supervisor/Router variant (agents.py).  Each node function is       *)
(* called once on a state drawn at Init; a node either returns an update   *)
(* (node_pc = "returned") or lets an exception leave it                    *)
(* (node_pc = "raised").                                                   *)
(***************************************************************************)
UPPERCASE == "ABCDEFGHIJKLMNOPQRSTUVWXYZ"
LOWERCASE == "abcdefghijklmnopqrstuvwxyz"

UppercaseLetters == {SubSeq(UPPERCASE, i, i) : i \in 1..Len(UPPERCASE)}

\* the lowercase letter of each uppercase letter
LowercaseOf ==
    [c \in UppercaseLetters |->
        LET i == Find(UPPERCASE, c) IN SubSeq(LOWERCASE, i, i)]

\* str.lower()
RECURSIVE Lower(_)
Lower(s) ==
    IF Len(s) = 0 THEN ""
    ELSE LET c == SubSeq(s, 1, 1)
         IN (IF c \in UppercaseLetters THEN LowercaseOf[c] ELSE c)
            \o Lower(SubSeq(s, 2, Len(s)))

Personas == {"financial_agent", "general_agent"}

\* the names of all the agent nodes the module creates
AgentPersonas ==
    {"financial_agent", "technical_agent", "risk_agent",
     "project_management_agent", "feedback_agent", "performance_agent",
     "general_agent"}

\* the grave accent: the module's lexer takes none inside a string, so the
\* character is written as a circumflex, which no text of the model holds
BACKTICK == "^"

\* raw texts the supervisor LLM call returns
SupervisorOutputs ==
    {"financial_agent", " 'general_agent'\n", "^financial_agent^",
     "\"general_agent\"", "the general agent", "\"general_agent \""}

\* texts the grader LLM call returns
Grades == {"yes", " Yes\n", "no", "yes.", "\"yes\""}

\* observations a tool step of the executor carries (tools.py never returns
\* an empty str): no result, and one result that is a whole chunk
Observations ==
    {"No relevant information found.",
     "--- Result 1 (from budget_report_q1.txt) ---\n"
        \o TextOfLength(CHUNK_SIZE) \o "\n"}

\* the responses executor.invoke returns to agent_node
Responses ==
    [output : Answers,
     intermediate_steps : SeqsUpTo([observation : Observations], MaxSteps)]

SENTINEL == "Could not find a confident answer after 5 attempts."
NotGraded == "<not graded>"

\* strip(), then every single quote, double quote and backtick is deleted
Sanitize(text) ==
    Replace(Replace(Replace(Strip(text), "'", ""), "\"", ""), BACKTICK, "")

supervisor_node(st, llm) ==
    IF llm.kind = "ok"
    THEN Return([agent_to_run |-> Sanitize(llm.value)])
    ELSE Propagate(llm.cause)

summarize_results_node(st, llm) ==
    IF llm.kind = "ok"
    THEN Return([final_summary |-> llm.value])
    ELSE Propagate(llm.cause)

\* the observations of the steps, joined by newlines
Context(resp) ==
    Join("\n", [i \in 1..Len(resp.intermediate_steps) |->
                    resp.intermediate_steps[i].observation])

has_context_always(resp) == TRUE

\* the negation of the test (if not context) in agent_node
has_context(resp) == Truthy(Context(resp))

grade_is_yes_contains(grade) == Contains(Lower(grade), "yes")

\* grade.lower().strip() == 'yes'
grade_is_yes(grade) == Strip(Lower(grade)) = "yes"

attempts_remain_one_more(n) == n <= max_attempts

attempts_remain_never(n) == FALSE

\* while attempts < max_attempts
attempts_remain(n) == n < max_attempts

agent_results_sentinel(st, answer) ==
    [results |-> [persona \in {st.agent_to_run} |-> SENTINEL]]

\* the update with the single entry results[state.agent_to_run] = answer
agent_results(st, answer) ==
    [results |-> [persona \in {st.agent_to_run} |-> answer]]

ExecutorInput_with_previous_answer(st) ==
    [input |-> st.original_query
               \o (IF attempt_log = <<>> THEN ""
                   ELSE "\nPrevious answer: "
                        \o attempt_log[Len(attempt_log)].answer)]

\* the argument of executor.invoke
ExecutorInput(st) == [input |-> st.original_query]

\* the argument of grader_chain.invoke
GraderInput(st, resp) ==
    [query |-> st.original_query,
     context |-> Context(resp),
     answer |-> resp.output]

\* one pass of the loop body up to the grader: executor.invoke, then the
\* empty-context test.  response holds the locals of the attempt under way
\* (preliminary_answer, intermediate_steps); they are dead once it ends.
AgentAttempt ==
    /\ node = "agent_node"
    /\ node_pc = "called"
    /\ attempts_remain(attempts)
    /\ executor_calls' = executor_calls + 1
    /\ executor_input' = ExecutorInput(node_state)
    /\ \E executor \in {Ok(r) : r \in Responses} \cup Raises :
          IF executor.kind = "raise"
          THEN /\ node_pc' = "raised"
               /\ UNCHANGED <<attempts, response, attempt_log, grader_input>>
          ELSE IF has_context(executor.value)
               THEN /\ node_pc' = "grading"
                    /\ response' = executor.value
                    /\ grader_input' = GraderInput(node_state, executor.value)
                    /\ UNCHANGED <<attempts, attempt_log>>
               ELSE /\ attempts' = attempts + 1
                    /\ node_pc' = "called"
                    /\ response' = NoResponse
                    /\ UNCHANGED grader_input
                    /\ attempt_log' =
                         Append(attempt_log,
                                [answer |-> executor.value.output,
                                 context |-> Context(executor.value) # "",
                                 grade |-> NotGraded])
    /\ UNCHANGED <<node, node_state, node_result, grader_calls>>
    /\ UNCHANGED pipeline_vars
    /\ UNCHANGED function_vars

\* the rest of the loop body: grader_chain.invoke and the test of the grade
AgentGrade ==
    /\ node = "agent_node"
    /\ node_pc = "grading"
    /\ grader_calls' = grader_calls + 1
    /\ \E grader \in {Ok(g) : g \in Grades} \cup Raises :
          IF grader.kind = "raise"
          THEN /\ node_pc' = "raised"
               /\ UNCHANGED <<attempts, node_result, response, attempt_log,
                              grader_input>>
          ELSE /\ grader_input' = NoInput
               /\ attempt_log' =
                    Append(attempt_log,
                           [answer |-> response.output,
                            context |-> Context(response) # "",
                            grade |-> grader.value])
               /\ response' = NoResponse
               /\ IF grade_is_yes(grader.value)
                  THEN /\ node_result' = agent_results(node_state, response.output)
                       /\ node_pc' = "returned"
                       /\ UNCHANGED attempts
                  ELSE /\ attempts' = attempts + 1
                       /\ node_pc' = "called"
                       /\ UNCHANGED node_result
    /\ UNCHANGED <<node, node_state, executor_calls, executor_input>>
    /\ UNCHANGED pipeline_vars
    /\ UNCHANGED function_vars

\* the loop finished: every attempt failed
AgentGivesUp ==
    /\ node = "agent_node"
    /\ node_pc = "called"
    /\ ~attempts_remain(attempts)
    /\ node_result' = agent_results(node_state, SENTINEL)
    /\ node_pc' = "returned"
    /\ UNCHANGED <<node, node_state, attempts, response, executor_calls,
                   grader_calls, attempt_log, executor_input, grader_input>>
    /\ UNCHANGED pipeline_vars
    /\ UNCHANGED function_vars

SupervisorNode ==
    /\ node = "supervisor_node"
    /\ node_pc = "called"
    /\ \E llm \in {Ok(t) : t \in SupervisorOutputs} \cup Raises :
          LET r == supervisor_node(node_state, llm)
          IN node_pc' = r.kind /\ node_result' = r.update
    /\ UNCHANGED <<node, node_state, attempts, response, executor_calls,
                   grader_calls, attempt_log, executor_input, grader_input>>
    /\ UNCHANGED pipeline_vars
    /\ UNCHANGED function_vars

SummarizeResultsNode ==
    /\ node = "summarize_results_node"
    /\ node_pc = "called"
    /\ \E llm \in {Ok(t) : t \in Answers} \cup Raises :
          LET r == summarize_results_node(node_state, llm)
          IN node_pc' = r.kind /\ node_result' = r.update
    /\ UNCHANGED <<node, node_state, attempts, response, executor_calls,
                   grader_calls, attempt_log, executor_input, grader_input>>
    /\ UNCHANGED pipeline_vars
    /\ UNCHANGED function_vars

\* the states the nodes are called on
NodeStates(name) ==
    IF name = "supervisor_node"
    THEN [original_query : Queries, knowledge_base : {EmptyDict}]
    ELSE IF name = "agent_node"
    THEN [original_query : Queries, knowledge_base : {EmptyDict},
          agent_to_run : Personas]
    ELSE [original_query : Queries, knowledge_base : {EmptyDict},
          agent_to_run : Personas,
          results : {[persona \in {p} |-> a] : p \in Personas, a \in Answers}]

AgentInit ==
    /\ pc = "main"
    /\ vectorstore = "None"
    /\ persisted = FALSE
    /\ state = EmptyDict
    /\ executed = <<>>
    /\ final_state = NoOutput
    /\ reported = NothingReported
    /\ fault = NoFault
    /\ iterations = 0
    /\ intermediate_steps = <<>>
    /\ retrieved_chunks = NotSearched
    /\ input_string = ""
    /\ NothingCalled
    /\ node \in {"supervisor_node", "agent_node", "summarize_results_node"}
    /\ node_pc = "called"
    /\ node_state \in NodeStates(node)
    /\ node_result = EmptyDict
    /\ attempts = 0
    /\ response = NoResponse
    /\ executor_calls = 0
    /\ grader_calls = 0
    /\ attempt_log = <<>>
    /\ executor_input = NoInput
    /\ grader_input = NoInput

AgentNext ==
    \/ SupervisorNode
    \/ AgentAttempt
    \/ AgentGrade
    \/ AgentGivesUp
    \/ SummarizeResultsNode

AgentSpec == AgentInit /\ [][AgentNext]_vars

(***************************************************************************)
(* Properties of the Supervisor/Router nodes.                              *)
(***************************************************************************)
\* C6: a failure of the LLM call, of the reasoning loop or of the grader
\* inside supervisor_node, agent_node or summarize_results_node becomes an
\* error field of the returned update; no exception leaves the node.
C6_NodeFaultBecomesError ==
    /\ node_pc # "raised"
    /\ (node_pc = "returned" /\ "error" \in DOMAIN node_result)
          => Truthy(node_result.error)

\* C17: the update supervisor_node returns either names an agent of the
\* closed set of personas as agent_to_run, or reports a routing failure as an
\* error and names no agent at all.
C17_UnknownPersonaIsRoutingFailure ==
    (node = "supervisor_node" /\ node_pc = "returned") =>
        \/ /\ "agent_to_run" \in DOMAIN node_result
           /\ node_result.agent_to_run \in AgentPersonas
        \/ /\ "error" \in DOMAIN node_result
           /\ Truthy(node_result.error)
           /\ "agent_to_run" \notin DOMAIN node_result

\* C28: the identifier supervisor_node returns is a fixed point of its own
\* sanitization: it holds no single quote, double quote or backtick and has
\* no whitespace at either end.
C28_SanitizationIsIdempotent ==
    (node = "supervisor_node" /\ node_pc = "returned") =>
        LET identifier == node_result.agent_to_run
        IN /\ Sanitize(identifier) = identifier
           /\ Strip(identifier) = identifier
           /\ ~Contains(identifier, "'")
           /\ ~Contains(identifier, "\"")
           /\ ~Contains(identifier, BACKTICK)

\* C20: no observation in the history of a reasoning loop, and no observation
\* that goes into the grading context of agent_node, is longer than the bound
\* of 500 characters.
C20_HistoryObservationsAreBounded ==
    /\ \A i \in 1..Len(intermediate_steps) :
          Len(intermediate_steps[i].observation) <= 500
    /\ \A i \in 1..Len(response.intermediate_steps) :
          Len(response.intermediate_steps[i].observation) <= 500

\* the verdict the grader's text stands for: trimmed and case-folded, the
\* literal token yes
VerdictValid(grade) == Lower(Strip(grade)) = "yes"

\* the attempt found context and the grader judged its answer VALID
AttemptValid(a) == a.context /\ a.grade # NotGraded /\ VerdictValid(a.grade)

NoAttemptValid == \A i \in 1..Len(attempt_log) : ~AttemptValid(attempt_log[i])

\* the single answer of the update agent_node returned
ReturnedAnswer == node_result.results[node_state.agent_to_run]

\* C8: when every attempt is graded INVALID or finds no context, agent_node
\* runs the reasoning loop exactly max_attempts times and then returns the
\* sentinel as the answer of the routed persona, with no error field; it
\* never starts a further run.
C8_ExhaustionReturnsSentinel ==
    (node = "agent_node") =>
        /\ executor_calls <= max_attempts
        /\ Len(attempt_log) <= max_attempts
        /\ (Len(attempt_log) = max_attempts /\ NoAttemptValid)
              => /\ node_pc \in {"called", "returned"}
                 /\ attempts = max_attempts
                 /\ executor_calls = max_attempts
        /\ (node_pc = "returned" /\ NoAttemptValid)
              => /\ Len(attempt_log) = max_attempts
                 /\ executor_calls = max_attempts
                 /\ DOMAIN node_result = {"results"}
                 /\ DOMAIN node_result.results = {node_state.agent_to_run}
                 /\ ReturnedAnswer = SENTINEL

\* five failed attempts, some without context and some graded INVALID, and
\* the sentinel returned
C8_Witness ==
    /\ node = "agent_node"
    /\ node_pc = "returned"
    /\ Len(attempt_log) = max_attempts
    /\ NoAttemptValid
    /\ \E i, j \in 1..max_attempts :
          /\ attempt_log[i].grade = NotGraded
          /\ attempt_log[j].grade = "yes."
    /\ ReturnedAnswer = SENTINEL

\* C9: when attempt n is the first graded VALID, exactly n reasoning-loop runs
\* were made, none is made after the verdict, and the answer returned is the
\* preliminary answer of attempt n.
C9_ValidAttemptReturnsItsAnswer ==
    (node = "agent_node") =>
        \A n \in 1..Len(attempt_log) :
            AttemptValid(attempt_log[n]) =>
                /\ n = Len(attempt_log)
                /\ n <= max_attempts
                /\ node_pc = "returned"
                /\ executor_calls = n
                /\ DOMAIN node_result.results = {node_state.agent_to_run}
                /\ ReturnedAnswer = attempt_log[n].answer

\* an INVALID first attempt with another answer, then a VALID second attempt
C9_Witness ==
    /\ node = "agent_node"
    /\ node_pc = "returned"
    /\ Len(attempt_log) = 2
    /\ attempt_log[1].grade = "no"
    /\ AttemptValid(attempt_log[2])
    /\ attempt_log[1].answer # attempt_log[2].answer
    /\ ReturnedAnswer = attempt_log[2].answer
    /\ executor_calls = 2

\* C11: the attempt that was graded is accepted exactly when the grader's
\* text, trimmed and then case-folded, is the token yes: agent_node then
\* returns that attempt's answer.  On every other text (yes with a full stop,
\* a quoted yes) the attempt counts as failed, the loop goes back to its head
\* and nothing is returned; an update agent_node returns has no error field.
C11_GraderVerdictParsing ==
    /\ [][(node_pc = "grading" /\ node_pc' # "raised") =>
             LET graded == attempt_log'[Len(attempt_log')]
             IN /\ Len(attempt_log') = Len(attempt_log) + 1
                /\ graded.grade \in Grades
                /\ IF VerdictValid(graded.grade)
                   THEN /\ node_pc' = "returned"
                        /\ node_result' =
                             [results |-> [persona \in {node_state.agent_to_run}
                                              |-> response.output]]
                        /\ attempts' = attempts
                   ELSE /\ node_pc' = "called"
                        /\ attempts' = attempts + 1
                        /\ node_result' = node_result]_vars
    /\ []((node = "agent_node" /\ node_pc = "returned")
             => DOMAIN node_result = {"results"})

\* yes with a full stop and a quoted yes were both rejected, then a padded,
\* capitalised Yes was accepted
C11_Witness ==
    /\ node = "agent_node"
    /\ node_pc = "returned"
    /\ Len(attempt_log) = 3
    /\ attempt_log[1].grade = "yes."
    /\ attempt_log[2].grade = "\"yes\""
    /\ attempt_log[3].grade = " Yes\n"
    /\ attempts = 2
    /\ ReturnedAnswer = attempt_log[3].answer

\* where the observation of step i starts in a text made of the observations
\* of the steps with one newline between neighbours
RECURSIVE StartOf(_, _)
StartOf(steps, i) ==
    IF i = 1 THEN 1
    ELSE StartOf(steps, i - 1) + Len(steps[i - 1].observation) + 1

\* the text is made of the observations of the steps and nothing else
MadeOfObservations(text, steps) ==
    /\ (steps = <<>> => text = "")
    /\ (steps # <<>> =>
          Len(text) = StartOf(steps, Len(steps))
                         + Len(steps[Len(steps)].observation) - 1)
    /\ \A i \in 1..Len(steps) :
          /\ SubSeq(text, StartOf(steps, i),
                    StartOf(steps, i) + Len(steps[i].observation) - 1)
                = steps[i].observation
          /\ (i > 1 => SubSeq(text, StartOf(steps, i) - 1,
                              StartOf(steps, i) - 1) = "\n")

\* C24: every attempt of agent_node calls the reasoning loop on the original
\* query alone; the grader gets the original query and the answer and the
\* observations of the attempt under way, nothing of an earlier attempt; a
\* failed attempt changes the counter and nothing else that a later attempt
\* reads.
C24_AttemptsAreIndependent ==
    /\ []((node = "agent_node" /\ executor_calls > 0) =>
             executor_input = [input |-> node_state.original_query])
    /\ [](node_pc = "grading" =>
             /\ DOMAIN grader_input = {"query", "context", "answer"}
             /\ grader_input.query = node_state.original_query
             /\ grader_input.answer = response.output
             /\ MadeOfObservations(grader_input.context,
                                   response.intermediate_steps))
    /\ [][(node = "agent_node" /\ node_pc' = "called"
             /\ Len(attempt_log') > Len(attempt_log)) =>
             /\ attempts' = attempts + 1
             /\ node_state' = node_state
             /\ node_result' = node_result
             /\ response' = NoResponse
             /\ grader_input' = NoInput
             /\ executor_input' = [input |-> node_state.original_query]]_vars

\* the third attempt is being graded, after an attempt with no context and an
\* attempt graded INVALID that gave another answer
C24_Witness ==
    /\ node = "agent_node"
    /\ node_pc = "grading"
    /\ attempts = 2
    /\ attempt_log[1].grade = NotGraded
    /\ attempt_log[2].grade = "no"
    /\ attempt_log[2].answer # response.output
    /\ Len(response.intermediate_steps) = 2
    /\ grader_input.answer = response.output

\* an attempt just ended whose tool observations concatenate to nothing
EmptyContextAttemptEnds ==
    /\ Len(attempt_log') = Len(attempt_log) + 1
    /\ ~attempt_log'[Len(attempt_log')].context

\* C10: an attempt with empty context is not graded: the grader is called
\* only on a response with context, the attempt adds one to the counter and
\* the loop goes back to its head; the answer agent_node returns is the
\* sentinel or the answer of an attempt that had context.
C10_EmptyContextIsNotGraded ==
    /\ [](node_pc = "grading" => Truthy(Context(response)))
    /\ [][EmptyContextAttemptEnds =>
             /\ executor_calls' = executor_calls + 1
             /\ grader_calls' = grader_calls
             /\ attempts' = attempts + 1
             /\ node_pc' = "called"]_vars
    /\ []((node = "agent_node" /\ node_pc = "returned") =>
             \/ ReturnedAnswer = SENTINEL /\ NoAttemptValid
             \/ /\ attempt_log[Len(attempt_log)].context
                /\ ReturnedAnswer = attempt_log[Len(attempt_log)].answer)

\* an attempt without context, whose answer differs from the one returned by
\* the VALID attempt that followed it
C10_Witness ==
    /\ node = "agent_node"
    /\ node_pc = "returned"
    /\ Len(attempt_log) = 2
    /\ ~attempt_log[1].context
    /\ attempt_log[1].grade = NotGraded
    /\ attempt_log[2].context
    /\ attempts = 1
    /\ grader_calls = 1
    /\ ReturnedAnswer = attempt_log[2].answer
    /\ ReturnedAnswer # attempt_log[1].answer

\* agent_node is in its loop: no call of it raised and it has not returned
InLoop == node = "agent_node" /\ node_pc \in {"called", "grading"}

\* how many steps agent_node can still take at most
StepsLeft ==
    IF node_pc = "called" THEN 2 * (max_attempts - attempts) + 2
    ELSE IF node_pc = "grading" THEN 2 * (max_attempts - attempts) + 1
    ELSE 0

\* C27: while no call of the reasoning loop or of the grader raises,
\* agent_node runs the loop at most 5 times and the grader never more often
\* than the loop; it runs neither once an attempt was graded VALID; it can
\* always take a step until it returns and every step brings it nearer to
\* its return, so it terminates; and what it returns after 1 to 5 runs is a
\* results mapping with one entry, keyed by state.agent_to_run.
C27_AgentBudgets ==
    /\ [](node = "agent_node" =>
            /\ executor_calls \in 0..5
            /\ grader_calls \in 0..executor_calls
            /\ attempts \in 0..5
            /\ StepsLeft \in 0..12
            /\ (node_pc = "returned" =>
                  /\ executor_calls \in 1..5
                  /\ DOMAIN node_result = {"results"}
                  /\ DOMAIN node_result.results = {node_state.agent_to_run}))
    /\ [](InLoop => ENABLED (AgentAttempt \/ AgentGrade \/ AgentGivesUp))
    /\ [][node = "agent_node" =>
            /\ StepsLeft' < StepsLeft
            /\ (executor_calls' # executor_calls \/ grader_calls' # grader_calls
                  => NoAttemptValid)
            /\ executor_calls' \in {executor_calls, executor_calls + 1}
            /\ grader_calls' \in {grader_calls, grader_calls + 1}]_vars

\* a run without context, a run graded INVALID and a run graded VALID: three
\* runs of the loop, two of the grader, and one entry returned
C27_Witness ==
    /\ node = "agent_node"
    /\ node_pc = "returned"
    /\ executor_calls = 3
    /\ grader_calls = 2
    /\ Len(attempt_log) = 3
    /\ AttemptValid(attempt_log[3])
    /\ DOMAIN node_result.results = {node_state.agent_to_run}

(***************************************************************************)
(* Functions called on their own: one call, on arguments drawn at the      *)
(* start, and what it returned.                                            *)
(***************************************************************************)
\* the chunk lists the index can return
ChunkLists ==
    SeqsUpTo({Chunk(d, x) : d \in Documents, x \in Scores}, MaxChunks)

GetFileRelevanceScoresCalls ==
    [function : {"get_file_relevance_scores"},
     vectorstore : {"None", "built"},
     index_result : ChunkLists]

\* vectorstore_manager.get_file_relevance_scores(query): the search, then
\* the aggregation of what it found
GetFileRelevanceScores ==
    /\ call.function = "get_file_relevance_scores"
    /\ call_result = NotReturned
    /\ LET all_chunks == search_similar_chunks(call.vectorstore,
                                               Ok(call.index_result),
                                               RELEVANCE_K)
       IN call_result' =
             IF all_chunks.kind = "ok"
             THEN Ok(get_file_relevance_scores(all_chunks.value))
             ELSE all_chunks
    /\ UNCHANGED call
    /\ UNCHANGED pipeline_vars
    /\ UNCHANGED agent_vars

\* the default of k in vector_search_chunks
TOP_K_CHUNKS == 5

\* the block vector_search_chunks writes for result number i
FormatResult(i, result) ==
    "--- Result " \o ToString(i) \o " (from " \o result.source \o ") ---\n"
    \o result.content \o "\n"

vector_search_chunks_unguarded(store, index_result, k) ==
    LET results == search_similar_chunks(store, index_result, k)
    IN IF results.kind = "raise" THEN results
       ELSE IF results.value = <<>> THEN Ok("No relevant information found.")
       ELSE Ok(Join("\n", [i \in 1..Len(results.value) |->
                              FormatResult(i, results.value[i])]))

\* the tool vector_search_chunks on an index in the state store whose lookup
\* does index_result: what the call gives back to the ReAct loop
vector_search_chunks(store, index_result, k) ==
    LET results == search_similar_chunks(store, index_result, k)
    IN IF results.kind = "raise"
       THEN Ok("Error during search: " \o results.cause)
       ELSE IF results.value = <<>> THEN Ok("No relevant information found.")
       ELSE Ok(Join("\n", [i \in 1..Len(results.value) |->
                              FormatResult(i, results.value[i])]))

\* a chunk as search_similar_chunks returns it
ContentChunk(source, content) ==
    [content |-> content, source |-> source, relevance_score |-> 1]

\* what the index finds for the query of the tool
SearchResults ==
    { <<>>,
      <<ContentChunk("budget_report_q1.txt", "Q1 budget: $50,000")>>,
      <<ContentChunk("budget_report_q1.txt", "Q1 budget: $50,000"),
        ContentChunk("other_doc.txt", "Minutes of the meeting")>> }

VectorSearchChunksCalls ==
    [function : {"vector_search_chunks"},
     vectorstore : {"None", "built"},
     index_result : {Ok(r) : r \in SearchResults} \cup Raises,
     k : {1, TOP_K_CHUNKS}]

\* the ReAct loop runs the tool vector_search_chunks
VectorSearchChunks ==
    /\ call.function = "vector_search_chunks"
    /\ call_result = NotReturned
    /\ call_result' =
          vector_search_chunks(call.vectorstore, call.index_result, call.k)
    /\ UNCHANGED call
    /\ UNCHANGED pipeline_vars
    /\ UNCHANGED agent_vars

RetrievalPlannerNodeCalls ==
    [function : {"retrieval_planner_node"},
     vectorstore : {"None", "built"},
     index_result : {Ok(r) : r \in IndexResults} \cup Raises]

\* retrieval_planner_node on an index in either state
RetrievalPlannerNode ==
    /\ call.function = "retrieval_planner_node"
    /\ call_result = NotReturned
    /\ call_result' =
          retrieval_planner_node(
              EmptyDict,
              search_similar_chunks(call.vectorstore, call.index_result,
                                    RELEVANCE_K))
    /\ UNCHANGED call
    /\ UNCHANGED pipeline_vars
    /\ UNCHANGED agent_vars

\* the observation of a search on an index that was never built
SEARCH_BEFORE_BUILD ==
    "Error during search: Vector store not initialized. Call build_vectorstore() first."

\* what a tool returned: short results, the failed search, and results
\* around and beyond the length evidence_gatherer_node keeps
ToolResults ==
    {"No relevant information found.", SEARCH_BEFORE_BUILD}
    \cup {TextOfLength(n) : n \in {1, OBSERVATION_LIMIT - 1, OBSERVATION_LIMIT,
                                     OBSERVATION_LIMIT + 1,
                                     2 * OBSERVATION_LIMIT + 3}}

EvidenceGathererNodeCalls ==
    [function : {"evidence_gatherer_node"},
     response :
        [output : {"The Q1 budget was $50,000."},
         intermediate_steps :
            SeqsUpTo([tool : {"vector_search_chunks"},
                      tool_input : {"Q1 budget"},
                      observation : ToolResults], MaxSteps)]]

\* evidence_gatherer_node from the return of agent_executor.invoke on
EvidenceGathererNode ==
    /\ call.function = "evidence_gatherer_node"
    /\ call_result = NotReturned
    /\ call_result' = evidence_gatherer_node(EmptyDict, Ok(call.response))
    /\ UNCHANGED call
    /\ UNCHANGED pipeline_vars
    /\ UNCHANGED agent_vars

\* os.getcwd() joined with files_to_work_with
FILES_DIRECTORY == "/app/files_to_work_with"

\* the default of num_lines
NUM_LINES_DEFAULT == 50

read_file_section_reads_past_the_end(directory, filename, start_line, num_lines, io) ==
    IF filename \notin DOMAIN directory
    THEN "Error: File '" \o filename \o "' not found in " \o FILES_DIRECTORY
    ELSE IF io.kind = "raise"
    THEN "Error reading file: " \o io.cause
    ELSE LET lines == directory[filename]
         IN IF start_line > Len(lines)
            THEN "Error: start_line " \o ToString(start_line)
                 \o " exceeds file length (" \o ToString(Len(lines))
                 \o " lines)"
            ELSE LET end_line == Min(start_line + num_lines, Len(lines))
                 IN "--- " \o filename \o " (lines "
                    \o ToString(start_line + 1) \o " to "
                    \o ToString(end_line) \o ") ---\n"
                    \o Join("", SubSeq(lines, start_line + 1, end_line))

\* read_file_section: directory maps the names of the files that exist to
\* their lines, io is what open() and readlines() did; start_line is not
\* negative.  Every exception is caught and returned as text.
read_file_section(directory, filename, start_line, num_lines, io) ==
    IF filename \notin DOMAIN directory
    THEN "Error: File '" \o filename \o "' not found in " \o FILES_DIRECTORY
    ELSE IF io.kind = "raise"
    THEN "Error reading file: " \o io.cause
    ELSE LET lines == directory[filename]
         IN IF start_line >= Len(lines)
            THEN "Error: start_line " \o ToString(start_line)
                 \o " exceeds file length (" \o ToString(Len(lines))
                 \o " lines)"
            ELSE LET end_line == Min(start_line + num_lines, Len(lines))
                 IN "--- " \o filename \o " (lines "
                    \o ToString(start_line + 1) \o " to "
                    \o ToString(end_line) \o ") ---\n"
                    \o Join("", SubSeq(lines, start_line + 1, end_line))

\* the lines a file can hold
FileLines == SeqsUpTo({"Q1 budget: $50,000\n", "\n"}, MaxLines)

ReadFileSectionCalls ==
    [function : {"read_file_section"},
     directory : {[f \in {"budget_report_q1.txt"} |-> lines] :
                     lines \in FileLines},
     filename : {"budget_report_q1.txt", "missing.txt"},
     start_line : 0..(MaxLines + 1),
     num_lines : {1, NUM_LINES_DEFAULT},
     io : {Ok("read")} \cup Raises]

\* the tool read_file_section, called by the executor
ReadFileSection ==
    /\ call.function = "read_file_section"
    /\ call_result = NotReturned
    /\ call_result' = Ok(read_file_section(call.directory, call.filename,
                                           call.start_line, call.num_lines,
                                           call.io))
    /\ UNCHANGED call
    /\ UNCHANGED pipeline_vars
    /\ UNCHANGED agent_vars

\* VECTOR_STORE_PATH does not exist
NoIndex == [chunk_size |-> 0, documents |-> {}]

\* an index: the chunk size it was split with and the files it was made of
Index(chunk_size, documents) ==
    [chunk_size |-> chunk_size, documents |-> documents]

\* build_vectorstore: what self.vectorstore and VECTOR_STORE_PATH hold after
\* it, and whether the documents were loaded, split and embedded
build_vectorstore(persisted_index, rebuild, documents) ==
    IF persisted_index # NoIndex /\ ~rebuild
    THEN [vectorstore |-> persisted_index, persisted |-> persisted_index,
          ingested |-> FALSE]
    ELSE [vectorstore |-> Index(CHUNK_SIZE, documents),
          persisted |-> Index(CHUNK_SIZE, documents),
          ingested |-> TRUE]

\* the files FILES_DIRECTORY can hold
DocumentSets == {{"budget_report_q1.txt"}, {"budget_report_q1.txt", "notes.txt"}}

\* build_vectorstore is called with the flag REBUILD_VECTORSTORE either way,
\* on a path that is absent or holds an index made earlier, with this chunk
\* size or another one
BuildVectorstoreCalls ==
    [function : {"build_vectorstore"},
     rebuild : BOOLEAN,
     persisted :
        {NoIndex} \cup {Index(c, d) : c \in {CHUNK_SIZE \div 2, CHUNK_SIZE},
                                     d \in DocumentSets},
     documents : DocumentSets]

\* VECTOR_STORE_PATH before the build that comes next
PersistedBefore ==
    IF call_result = NotReturned THEN call.persisted
    ELSE call_result.value.persisted

\* vectorstore_manager.build_vectorstore(), once and again
BuildVectorstore ==
    /\ call.function = "build_vectorstore"
    /\ IF call_result = NotReturned
       THEN call_result' =
              [kind |-> "ok", builds |-> 1,
               value |-> build_vectorstore(call.persisted, call.rebuild,
                                           call.documents)]
       ELSE /\ call_result.builds < MaxBuilds
            /\ call_result' =
                 [kind |-> "ok", builds |-> call_result.builds + 1,
                  value |-> build_vectorstore(call_result.value.persisted,
                                              call.rebuild, call.documents)]
    /\ UNCHANGED call
    /\ UNCHANGED pipeline_vars
    /\ UNCHANGED agent_vars

Calls ==
    GetFileRelevanceScoresCalls \cup EvidenceGathererNodeCalls
    \cup ReadFileSectionCalls \cup BuildVectorstoreCalls
    \cup VectorSearchChunksCalls \cup RetrievalPlannerNodeCalls

FunctionInit ==
    /\ pc = "main"
    /\ vectorstore = "None"
    /\ persisted = FALSE
    /\ state = EmptyDict
    /\ executed = <<>>
    /\ final_state = NoOutput
    /\ reported = NothingReported
    /\ fault = NoFault
    /\ iterations = 0
    /\ intermediate_steps = <<>>
    /\ retrieved_chunks = NotSearched
    /\ input_string = ""
    /\ AgentIdle
    /\ call \in Calls
    /\ call_result = NotReturned

FunctionNext ==
    \/ GetFileRelevanceScores
    \/ EvidenceGathererNode
    \/ ReadFileSection
    \/ BuildVectorstore
    \/ VectorSearchChunks
    \/ RetrievalPlannerNode

FunctionSpec == FunctionInit /\ [][FunctionNext]_vars

(***************************************************************************)
(* Properties of the RelevanceAggregator.                                  *)
(***************************************************************************)
\* get_file_relevance_scores returned a ranking
Ranked ==
    /\ call.function = "get_file_relevance_scores"
    /\ call_result.kind = "ok"

\* the positions of the document's chunks in the list the index returned
ChunksOf(document) ==
    {i \in 1..Len(call.index_result) : call.index_result[i].source = document}

RECURSIVE Total(_)
Total(positions) ==
    IF positions = {} THEN 0
    ELSE LET i == CHOOSE j \in positions : TRUE
         IN call.index_result[i].relevance_score + Total(positions \ {i})

\* C12: the ranking get_file_relevance_scores returns is ascending by value,
\* and the value of each document in it is the arithmetic mean of the scores
\* of that document's retrieved chunks (value * count = sum); the value of a
\* document with a single chunk is that chunk's score.
C12_RankingIsAscendingMeans ==
    Ranked =>
        LET ranking == call_result.value
        IN /\ \A i, j \in 1..Len(ranking) :
                 i < j => ranking[i][2][1] * ranking[j][2][2]
                             <= ranking[j][2][1] * ranking[i][2][2]
           /\ \A i \in 1..Len(ranking) :
                 LET mine == ChunksOf(ranking[i][1])
                     value == ranking[i][2]
                 IN /\ mine # {}
                    /\ value[2] > 0
                    /\ value[1] * Cardinality(mine) = Total(mine) * value[2]
                    /\ (Cardinality(mine) = 1 =>
                          \A c \in mine :
                             value = <<call.index_result[c].relevance_score, 1>>)

\* two chunks of one document with scores 1 and 4 (mean 5/2, not the minimum
\* 1) and one chunk of another with score 2, which is ranked first
C12_Witness ==
    /\ Ranked
    /\ call.index_result =
          <<Chunk("other_doc.txt", 1), Chunk("budget_report_q1.txt", 2),
            Chunk("other_doc.txt", 4)>>
    /\ call_result.value =
          <<(<<"budget_report_q1.txt", <<2, 1>> >>),
            (<<"other_doc.txt", <<5, 2>> >>)>>

C15_ObservationIsPrefixOfAtMost500 ==
    (call.function = "evidence_gatherer_node" /\ call_result # NotReturned) =>
        LET steps == call.response.intermediate_steps
            evidence == call_result.update.evidence
        IN /\ call_result.kind = "returned"
           /\ Len(evidence) = Len(steps) + 1
           /\ \A i \in 1..Len(steps) :
                 LET result == steps[i].observation
                     stored == evidence[i].observation
                 IN /\ Len(stored) = (IF Len(result) < 500 THEN Len(result)
                                      ELSE 500)
                    /\ stored = SubSeq(result, 1, Len(stored))
                    /\ (Len(result) > 500 => Len(stored) = 500)
                    /\ (Len(result) <= 500 => stored = result)

\* a result of 501 characters stored with 500, next to one of 499 stored whole
C15_Witness ==
    /\ call.function = "evidence_gatherer_node"
    /\ call_result # NotReturned
    /\ Len(call.response.intermediate_steps) = 2
    /\ Len(call.response.intermediate_steps[1].observation) = 501
    /\ Len(call_result.update.evidence[1].observation) = 500
    /\ Len(call.response.intermediate_steps[2].observation) = 499
    /\ call_result.update.evidence[2].observation
          = call.response.intermediate_steps[2].observation

\* the text is an error message of the tool
IsErrorText(text) == Len(text) >= 5 /\ SubSeq(text, 1, 5) = "Error"

\* read_file_section was called and is over
SectionRead == call.function = "read_file_section" /\ call_result # NotReturned

\* C16: read_file_section always returns a text; for a file that exists and
\* was read, with L lines, and start_line >= L the text is an error message
\* that contains L; for a file that does not exist it is an error message.
C16_ReadSectionOutOfRange ==
    SectionRead =>
        /\ call_result.kind = "ok"
        /\ (call.filename \notin DOMAIN call.directory
              => IsErrorText(call_result.value))
        /\ (/\ call.filename \in DOMAIN call.directory
            /\ call.io.kind = "ok"
            /\ call.start_line >= Len(call.directory[call.filename]))
              => /\ IsErrorText(call_result.value)
                 /\ Contains(call_result.value,
                             ToString(Len(call.directory[call.filename])))

\* start_line equal to the number of lines of a two-line file
C16_Witness ==
    /\ SectionRead
    /\ call.filename = "budget_report_q1.txt"
    /\ call.io.kind = "ok"
    /\ Len(call.directory[call.filename]) = 2
    /\ call.start_line = 2
    /\ call_result.value = "Error: start_line 2 exceeds file length (2 lines)"

(***************************************************************************)
(* Properties of the index build.                                          *)
(***************************************************************************)
\* a call of build_vectorstore returns in this step
BuildReturns ==
    call.function = "build_vectorstore" /\ call_result' # call_result

\* the index was made with the chunk size of the configuration
MatchesParameters(index) == index.chunk_size = CHUNK_SIZE

\* with the flag off an index that exists is loaded as it is and nothing is
\* ingested, so the index in use and the one on disk stay what they were
LoadsPersisted ==
    (PersistedBefore # NoIndex /\ ~call.rebuild) =>
        /\ ~call_result'.value.ingested
        /\ call_result'.value.vectorstore = PersistedBefore
        /\ call_result'.value.persisted = PersistedBefore
        /\ (call_result # NotReturned =>
              call_result'.value.vectorstore = call_result.value.vectorstore)

\* with the flag on, or with no index on disk, the documents are ingested
\* with the current parameters and the result is saved
Reingests ==
    (call.rebuild \/ PersistedBefore = NoIndex) =>
        /\ call_result'.value.ingested
        /\ call_result'.value.vectorstore
              = [chunk_size |-> CHUNK_SIZE, documents |-> call.documents]
        /\ call_result'.value.persisted = call_result'.value.vectorstore

\* C25: with the flag off a persisted index that matches the
\* current parameters is loaded and a repeated build leaves it unchanged;
\* with the flag on the documents are always ingested again; and a persisted
\* index that does not match the current parameters is not reused: the index
\* in use after the build matches them.
C25_IndexBuildIdempotence ==
    [][BuildReturns =>
         /\ (MatchesParameters(PersistedBefore) => LoadsPersisted)
         /\ Reingests
         /\ MatchesParameters(call_result'.value.vectorstore)]_vars

(***************************************************************************)
(* Properties of the semantic search tool.                                 *)
(***************************************************************************)
NOT_INITIALIZED == "Vector store not initialized. Call build_vectorstore() first."

\* the call under way has returned
Returned == call_result # NotReturned

\* C29: vector_search_chunks gives back a string whatever the index does: the
\* text of the error when the index was not built or its lookup fails, the
\* fixed message when nothing is found, and the formatted results otherwise;
\* it never raises.  Such an error text among the observations of the loop is
\* kept as evidence and the Gather stage returns no error, whereas
\* retrieval_planner_node on the same failing index returns the failure as
\* its error and no ranking.
C29_SearchToolNeverFaults ==
    /\ (call.function = "vector_search_chunks" /\ Returned) =>
          /\ call_result.kind = "ok"
          /\ call_result.value \in STRING
          /\ (call.vectorstore = "None"
                => call_result.value = "Error during search: " \o NOT_INITIALIZED)
          /\ (call.vectorstore = "built" /\ call.index_result.kind = "raise"
                => call_result.value
                     = "Error during search: " \o call.index_result.cause)
          /\ (call.vectorstore = "built" /\ call.index_result = Ok(<<>>)
                => call_result.value = "No relevant information found.")
          /\ (call.vectorstore = "built" /\ call.index_result.kind = "ok"
              /\ call.index_result.value # <<>>
                => /\ SubSeq(call_result.value, 1, 15) = "--- Result 1 (f"
                   /\ Contains(call_result.value,
                               call.index_result.value[1].content))
    /\ (call.function = "evidence_gatherer_node" /\ Returned) =>
          \A i \in 1..Len(call.response.intermediate_steps) :
              call.response.intermediate_steps[i].observation
                    = "Error during search: " \o NOT_INITIALIZED
                => /\ call_result.kind = "returned"
                   /\ DOMAIN call_result.update = {"evidence"}
                   /\ call_result.update.evidence[i].observation
                         = "Error during search: " \o NOT_INITIALIZED
    /\ (call.function = "retrieval_planner_node" /\ Returned) =>
          /\ call_result.kind = "returned"
          /\ (call.vectorstore = "None"
                => call_result.update =
                     [error |-> "File relevance scoring failed: "
                                \o NOT_INITIALIZED])
          /\ (call.vectorstore = "built" /\ call.index_result.kind = "raise"
                => call_result.update =
                     [error |-> "File relevance scoring failed: "
                                \o call.index_result.cause])
          /\ (call.vectorstore = "built" /\ call.index_result.kind = "ok"
                => DOMAIN call_result.update = {"file_scores"})

\* the tool was run before the index was built and gave the error as text
C29_Witness ==
    /\ call.function = "vector_search_chunks"
    /\ Returned
    /\ call.vectorstore = "None"
    /\ call.k = 5
    /\ call_result =
          [kind |-> "ok",
           value |-> "Error during search: Vector store not initialized. Call build_vectorstore() first."]

====
